---- MODULE Spec2Model ----
(***************************************************************************)
(* A model of the research-assistant pipeline: Orchestrator.process_query  *)
(* (src/src/services/orchestrator.py) with its WorkflowState, the parallel *)
(* retrieval over a ThreadPoolExecutor, Evaluator.filter_context,          *)
(* Synthesizer.generate_response and the conversation-memory update.       *)
(*                                                                         *)
(* Scores are fixed-point numbers in thousandths: 1000 stands for 1.0,     *)
(* 600 for the quality threshold 0.6, and so on.  Time is counted in       *)
(* seconds since retrieval began.                                          *)
(***************************************************************************)
EXTENDS Integers, Sequences, FiniteSets, TLC

VARIABLES
    pc,                 \* where the thread running process_query stands
    now,                \* seconds elapsed since _retrieve_context_with_retry began
    task,               \* per tool: the future submitted to the executor
    doneQueue,          \* futures finished and not yet yielded by as_completed
    invocations,        \* per tool: how many times tool.execute was called
    deadlineHit,        \* as_completed raised its TimeoutError
    aggregated,         \* the local AggregatedContext of _retrieve_context_with_retry
    aggregated_context, \* process_query's aggregated_context (what evaluation is handed)
    filtered_context,   \* process_query's filtered_context (what synthesis is handed)
    evaluatorOutcome,   \* what the evaluator did: "not_called", "ok", "raised"
    synthesizerOutcome, \* what the synthesizer did: "not_called", "ok", "raised", "absent"
    response,           \* process_query's response
    returned,           \* the value process_query returned
    unhandled,          \* the top-level except clause ran
    query,              \* the Query object
    workflow_state,     \* the WorkflowState of this query
    history,            \* the ConversationHistory's messages (when one is supplied)
    stepsStarted,       \* the steps in the order record_step_start named them
    config,             \* how the Orchestrator was built and called
    invocation,         \* per concurrent process_query call: its Query and its locals
    _workflow_states,   \* the Orchestrator's dict of WorkflowState objects, by query id
    chunk_objects,      \* the ContextChunk objects the tools' execute calls created
    last_error          \* per tool: its last_error attribute

\* The variables of concurrent invocations; they stay as constructed where a
\* single process_query call is followed.
concurrentVars == <<invocation, _workflow_states, chunk_objects, last_error>>

vars == <<pc, now, task, doneQueue, invocations, deadlineHit, aggregated,
          aggregated_context, filtered_context, evaluatorOutcome,
          synthesizerOutcome, response, returned, unhandled, query,
          workflow_state, history, stepsStarted, config, concurrentVars>>

---------------------------------------------------------------------------
(* Bounds of the model *)

NumTools == 2       \* registered tools
MaxChunks == 1      \* fragments one tool returns at most
TickSeconds == 10   \* granularity of the clock
MaxTime == 25      \* the clock stops here (past the retrieval deadline)
MaxInputChunks == 2     \* fragments in an AggregatedContext given to the evaluation step alone
MaxContradictions == 3  \* contradictions in a FilteredContext given to the synthesis step alone

(* Program constants *)

DEFAULT_RETRIEVAL_TIMEOUT == 15
PER_TOOL_TIMEOUT == 8
max_workers == 4
max_retries == 2
quality_threshold == 600
dedup_threshold == 900
max_response_length == 5000

Tools == 1..NumTools

None == <<>>
Some(x) == <<x>>

---------------------------------------------------------------------------
(* Small helpers on sequences *)

Min(a, b) == IF a <= b THEN a ELSE b
Max(a, b) == IF a >= b THEN a ELSE b

RECURSIVE SumSeq(_)
SumSeq(s) == IF s = <<>> THEN 0 ELSE Head(s) + SumSeq(Tail(s))

Range(s) == {s[i] : i \in 1..Len(s)}

Count(s, x) == Cardinality({i \in 1..Len(s) : s[i] = x})

Take(s, n) == SubSeq(s, 1, Min(n, Len(s)))

---------------------------------------------------------------------------
(* Tools and the fragments they return *)

\* SourceType of the tool registered at position t.
SourceTypeOf(t) ==
    CASE t % 4 = 1 -> "rag"
      [] t % 4 = 2 -> "web"
      [] t % 4 = 3 -> "arxiv"
      [] OTHER     -> "memory"

\* The text of the k-th fragment of tool t, as its words.
TextOf(t, k) ==
    IF k = 1
    THEN (IF t % 2 = 1 THEN <<"models", "can", "generalize">>
                       ELSE <<"models", "cannot", "generalize">>)
    ELSE <<"note", SourceTypeOf(t), "aside">>

\* ToolBase.create_chunk: query_id is left empty, the orchestrator sets it.
create_chunk(t, k) ==
    [id                 |-> 10 * t + k,
     query_id           |-> "",
     source_type        |-> SourceTypeOf(t),
     text               |-> TextOf(t, k),
     source_id          |-> 10 * t + k,
     source_date        |-> None,
     semantic_relevance |-> IF k = 1 THEN 950 ELSE 200]

\* ToolResult.  status "raised" stands for tool.execute raising: the future
\* then holds the exception and future.result() re-raises it.
ToolResult(status, t, n) ==
    [status |-> status,
     chunks |-> IF status \in {"success", "degraded"}
                THEN [k \in 1..n |-> create_chunk(t, k)] ELSE <<>>]

ToolOutcomes(t) ==
    {ToolResult(s, t, n) : s \in {"success", "degraded"}, n \in 0..MaxChunks}
    \cup {ToolResult(s, t, 0) : s \in {"timeout", "error", "raised"}}

is_successful_only_success(result) == result.status = "success"

\* ToolResult.is_successful
is_successful(result) == result.status \in {"success", "degraded"}

---------------------------------------------------------------------------
(* Query *)

QueryId == "q1"
QueryText == <<"what", "is", "ml">>

\* Query as its constructor leaves it.
NewQuery == [status |-> "submitted", error_message |-> None]

mark_processing(q) == [q EXCEPT !.status = "processing"]

mark_completed(q) == [q EXCEPT !.status = "completed", !.error_message = None]

mark_failed_keeps_message(q, error) == [q EXCEPT !.status = "failed"]

mark_failed(q, error) ==
    [q EXCEPT !.status = "failed", !.error_message = Some(error)]

---------------------------------------------------------------------------
(* WorkflowState *)

StepValue(step) ==
    CASE step = "RETRIEVAL"  -> "retrieval"
      [] step = "EVALUATION" -> "evaluation"
      [] step = "SYNTHESIS"  -> "synthesis"
      [] step = "MEMORY"     -> "memory"
      [] step = "COMPLETE"   -> "complete"
      [] OTHER               -> "error"

NewWorkflowState ==
    [current_step       |-> None,
     completed_steps    |-> <<>>,
     failed_steps       |-> <<>>,
     step_times         |-> <<>>,
     step_errors        |-> <<>>,
     aggregated_context |-> None]

\* step_times and step_errors are dicts keyed by step.value; a dict is kept
\* as a sequence of <<key, value>> pairs, the last pair for a key being the
\* current one.
DictKeys(d) == {d[i][1] : i \in 1..Len(d)}
DictSet(d, k, v) == SelectSeq(d, LAMBDA p : p[1] # k) \o <<(<<k, v>>)>>
DictGet(d, k) == d[CHOOSE i \in 1..Len(d) : d[i][1] = k][2]

record_step_start(ws, step, t) ==
    [ws EXCEPT !.current_step = Some(step),
               !.step_times = DictSet(@, StepValue(step), t)]

\* "if step in self.step_times" looks the enum member up among the string
\* keys, so the elapsed time is stored only if the member itself is a key.
record_step_complete(ws, step, t) ==
    [ws EXCEPT !.completed_steps = Append(@, step),
               !.step_times = IF step \in DictKeys(@)
                              THEN DictSet(@, StepValue(step),
                                           t - DictGet(@, StepValue(step)))
                              ELSE @]

record_step_error_not_listed(ws, step, error) ==
    [ws EXCEPT !.step_errors = DictSet(@, StepValue(step), error)]

record_step_error(ws, step, error) ==
    [ws EXCEPT !.failed_steps = Append(@, step),
               !.step_errors = DictSet(@, StepValue(step), error)]

---------------------------------------------------------------------------
(* AggregatedContext *)

NewAggregatedContext ==
    [query_id          |-> QueryId,
     chunks            |-> <<>>,
     retrieval_time    |-> 0,
     sources_consulted |-> <<>>,
     sources_failed    |-> <<>>,
     total_chunks_before_dedup |-> 0,
     total_chunks_after_dedup  |-> 0]

\* The loop "chunk.query_id = query.id; aggregated.add_chunk(chunk)".
RECURSIVE add_chunks(_, _)
add_chunks(chunks, new) ==
    IF new = <<>> THEN chunks
    ELSE add_chunks(Append(chunks, [Head(new) EXCEPT !.query_id = QueryId]),
                    Tail(new))

---------------------------------------------------------------------------
(* Evaluator *)

\* Evaluator.DEFAULT_REPUTATION_WEIGHTS
reputation_weights(source_type) ==
    CASE source_type = "arxiv"  -> 950
      [] source_type = "web"    -> 700
      [] source_type = "memory" -> 600
      [] source_type = "rag"    -> 800
      [] OTHER                  -> 500

\* Evaluator._calculate_recency_score, for a fragment that carries no
\* source_date (the only kind the tools of this model return).
_calculate_recency_score(source_date) == 500

\* Evaluator.calculate_quality_score as filter_context calls it: no
\* higher_scored_chunks, so the redundancy penalty is 0.
calculate_quality_score(chunk) ==
    LET total == (300 * reputation_weights(chunk.source_type)
                  + 200 * _calculate_recency_score(chunk.source_date)
                  + 400 * chunk.semantic_relevance) \div 1000
    IN  Max(0, Min(1000, total))

\* Evaluator._calculate_text_similarity: Jaccard overlap of the word sets.
_calculate_text_similarity(text1, text2) ==
    LET tokens1 == Range(text1)
        tokens2 == Range(text2)
    IN  IF tokens1 = {} \/ tokens2 = {} THEN 0
        ELSE (1000 * Cardinality(tokens1 \cap tokens2))
                 \div Cardinality(tokens1 \cup tokens2)

SortDescending_ties_reversed(s) ==
    LET Rank(i) == 1 + Cardinality({j \in 1..Len(s) :
                        \/ s[j].score > s[i].score
                        \/ s[j].score = s[i].score /\ j > i})
    IN  [p \in 1..Len(s) |-> s[CHOOSE i \in 1..Len(s) : Rank(i) = p]]

\* list.sort(key=score, reverse=True): stable, descending.
SortDescending(s) ==
    LET Rank(i) == 1 + Cardinality({j \in 1..Len(s) :
                        \/ s[j].score > s[i].score
                        \/ s[j].score = s[i].score /\ j < i})
    IN  [p \in 1..Len(s) |-> s[CHOOSE i \in 1..Len(s) : Rank(i) = p]]

\* FilteredContext(...) with its __post_init__: the mean is recomputed only
\* when filtered_chunk_count is already positive at construction.
FilteredContext(original_chunk_count, filtered_chunk_count, chunks, average_quality_score) ==
    [query_id                |-> QueryId,
     original_chunk_count    |-> original_chunk_count,
     filtered_chunk_count    |-> filtered_chunk_count,
     chunks                  |-> chunks,
     average_quality_score   |->
         IF filtered_chunk_count > 0
         THEN SumSeq([i \in 1..Len(chunks) |-> chunks[i].quality_score])
                  \div filtered_chunk_count
         ELSE average_quality_score,
     removed_chunks          |-> <<>>,
     contradictions_detected |-> <<>>]

FilteredChunk(chunk, quality_score) ==
    [id                 |-> chunk.id,
     query_id           |-> chunk.query_id,
     source_type        |-> chunk.source_type,
     text               |-> chunk.text,
     source_id          |-> chunk.source_id,
     source_date        |-> chunk.source_date,
     semantic_relevance |-> chunk.semantic_relevance,
     quality_score      |-> quality_score,
     filtering_decision |-> "kept"]

RemovedChunkRecord(chunk, reason, score) ==
    [original_chunk_id |-> chunk.id,
     reason            |-> reason,
     quality_score     |-> score,
     source            |-> chunk.source_type,
     text_preview      |-> Take(chunk.text, 200)]

\* Evaluator.__init__: both thresholds are clamped to [0, 1].
Evaluator(quality_threshold_arg, dedup_threshold_arg) ==
    [quality_threshold |-> Max(0, Min(1000, quality_threshold_arg)),
     dedup_threshold   |-> Max(0, Min(1000, dedup_threshold_arg))]

FilterStep_no_dedup(self, item, filtered) ==
    IF item.score >= self.quality_threshold
    THEN [filtered EXCEPT !.chunks = Append(@, FilteredChunk(item.chunk, item.score)),
                          !.filtered_chunk_count = Len(filtered.chunks) + 1]
    ELSE [filtered EXCEPT !.removed_chunks =
             Append(@, RemovedChunkRecord(item.chunk, "low_quality", item.score))]

FilterStep_keeps_low_quality(self, item, filtered) ==
    [filtered EXCEPT !.chunks = Append(@, FilteredChunk(item.chunk, item.score)),
                     !.filtered_chunk_count = Len(filtered.chunks) + 1]

FilterStep_duplicate_unrecorded(self, item, filtered) ==
    IF item.score >= self.quality_threshold
    THEN IF \E i \in 1..Len(filtered.chunks) :
               _calculate_text_similarity(item.chunk.text, filtered.chunks[i].text)
                   > self.dedup_threshold
         THEN filtered
         ELSE [filtered EXCEPT !.chunks = Append(@, FilteredChunk(item.chunk, item.score)),
                               !.filtered_chunk_count = Len(filtered.chunks) + 1]
    ELSE [filtered EXCEPT !.removed_chunks =
             Append(@, RemovedChunkRecord(item.chunk, "low_quality", item.score))]

\* One pass of the filtering loop of filter_context (lines 256-297) for one
\* (chunk, score) pair; removed records are written straight into the
\* FilteredContext.
FilterStep(self, item, filtered) ==
    LET chunk == item.chunk
        score == item.score
        is_duplicate ==
            \E i \in 1..Len(filtered.chunks) :
                _calculate_text_similarity(chunk.text, filtered.chunks[i].text)
                    > self.dedup_threshold
    IN  IF score >= self.quality_threshold
        THEN IF is_duplicate
             THEN [filtered EXCEPT !.removed_chunks =
                      Append(@, RemovedChunkRecord(chunk, "deduplicated", score))]
             ELSE [filtered EXCEPT
                      !.chunks = Append(@, FilteredChunk(chunk, score)),
                      !.filtered_chunk_count = Len(filtered.chunks) + 1]
        ELSE [filtered EXCEPT !.removed_chunks =
                      Append(@, RemovedChunkRecord(chunk, "low_quality", score))]

\* The filtering loop of filter_context over the sorted (chunk, score) pairs.
RECURSIVE FilterLoop(_, _, _)
FilterLoop(self, scored, filtered) ==
    IF scored = <<>> THEN filtered
    ELSE FilterLoop(self, Tail(scored), FilterStep(self, Head(scored), filtered))

ScoredChunks(agg) ==
    [i \in 1..Len(agg.chunks) |->
        [chunk |-> agg.chunks[i], score |-> calculate_quality_score(agg.chunks[i])]]

filter_context_uncounted(self, agg) ==
    FilterLoop(self, SortDescending(ScoredChunks(agg)), FilteredContext(0, 0, <<>>, 0))

\* The pairs of _contains_potential_contradiction, in the order it tries them.
conflict_keywords ==
    <<(<<"cannot", "can">>), (<<"is not", "is">>), (<<"false", "true">>),
      (<<"yes", "no">>), (<<"rejects", "accepts">>)>>

\* "kw in word" for the words the texts of this model are made of: a keyword
\* occurs in itself, "can" and "no" occur in "cannot", "no" in "note" and "not".
IsSubstring(kw, word) ==
    \/ kw = word
    \/ kw = "can" /\ word = "cannot"
    \/ kw = "no" /\ word \in {"cannot", "note", "not"}

\* "kw in text_lower": substring search in the text, its words joined by
\* single blanks.  The one keyword with a blank in it, "is not", is found
\* where a word ending in "is" is followed by one beginning with "not".
KeywordIn(kw, text) ==
    IF kw = "is not"
    THEN \E i \in 1..(Len(text) - 1) :
            text[i] = "is" /\ text[i + 1] \in {"not", "note"}
    ELSE \E i \in 1..Len(text) : IsSubstring(kw, text[i])

\* Evaluator._contains_potential_contradiction
_contains_potential_contradiction(text1, text2) ==
    \E p \in 1..Len(conflict_keywords) :
        /\ KeywordIn(conflict_keywords[p][1], text1)
        /\ KeywordIn(conflict_keywords[p][2], text2)

\* The contradiction_pairs list of _detect_contradictions (lines 335-341),
\* as the set of index pairs <<i, j>> into the kept chunks.
contradiction_pairs(chunks) ==
    IF Len(chunks) < 2 THEN {}
    ELSE {pair \in (1..Len(chunks)) \X (1..Len(chunks)) :
             /\ pair[1] < pair[2]
             /\ chunks[pair[1]].source_type # chunks[pair[2]].source_type
             /\ _contains_potential_contradiction(chunks[pair[1]].text,
                                                  chunks[pair[2]].text)}

\* Evaluator._detect_contradictions: the pairs found are counted in a log
\* line and nothing is written to the FilteredContext.
_detect_contradictions(chunks, filtered) ==
    IF contradiction_pairs(chunks) # {} THEN filtered ELSE filtered

\* Evaluator.filter_context
filter_context(self, agg) ==
    LET filtered == FilterLoop(self, SortDescending(ScoredChunks(agg)),
                               FilteredContext(Len(agg.chunks), 0, <<>>, 0))
    IN  _detect_contradictions(filtered.chunks, filtered)

---------------------------------------------------------------------------
(* FinalResponse and Synthesizer *)

\* FinalResponse(answer=...) with the dataclass defaults.
FinalResponse(answer) ==
    [query_id           |-> QueryId,
     answer             |-> answer,
     sections           |-> <<>>,
     perspectives       |-> None,
     overall_confidence |-> 800,
     sources            |-> <<>>,
     response_quality   |-> [has_contradictions |-> FALSE,
                             degraded_mode      |-> FALSE,
                             completeness       |-> 800,
                             informativeness    |-> 800,
                             confidence         |-> 800]]

\* FinalResponse._validate passes (it raises ValueError otherwise).
_validate(r) ==
    /\ r.answer # <<>>
    /\ r.overall_confidence >= 0 /\ r.overall_confidence <= 1000
    /\ (r.perspectives # None => Len(r.perspectives[1]) >= 2)

_create_error_response_not_degraded(error_message) ==
    [FinalResponse(<<"i_encountered_an_error">> \o QueryText \o <<error_message>>)
        EXCEPT !.response_quality.confidence = 0,
               !.overall_confidence = 0]

\* Orchestrator._create_error_response
_create_error_response(error_message) ==
    [FinalResponse(<<"i_encountered_an_error">> \o QueryText \o <<error_message>>)
        EXCEPT !.response_quality.confidence = 0,
               !.response_quality.degraded_mode = TRUE,
               !.overall_confidence = 0]

\* Synthesizer._organize_into_sections: one bucket per source type in order
\* of first appearance, then sorted by size, largest first.
_organize_into_sections(chunks) ==
    LET firsts  == {i \in 1..Len(chunks) :
                       \A j \in 1..(i - 1) : chunks[j].source_type # chunks[i].source_type}
        Nth(p)  == CHOOSE i \in firsts : Cardinality({j \in firsts : j < i}) = p - 1
        buckets == [p \in 1..Cardinality(firsts) |->
                      LET st == chunks[Nth(p)].source_type
                          members == SelectSeq(chunks, LAMBDA c : c.source_type = st)
                      IN  [heading |-> st, chunks |-> members, score |-> Len(members)]]
    IN  SortDescending(buckets)

\* Synthesizer._create_response_section
_create_response_section(bucket) ==
    [heading    |-> bucket.heading,
     content    |-> Take(bucket.chunks, 5),
     confidence |-> SumSeq([i \in 1..Len(bucket.chunks) |->
                               bucket.chunks[i].quality_score]) \div Len(bucket.chunks),
     sources    |-> {bucket.chunks[i].source_id : i \in 1..Len(bucket.chunks)}]

\* Synthesizer._generate_summary: an introduction and one bullet for each of
\* the first three chunks of the list it is given.
RECURSIVE Bullets(_)
Bullets(chunks) ==
    IF chunks = <<>> THEN <<>> ELSE Take(Head(chunks).text, 100) \o Bullets(Tail(chunks))

_generate_summary(chunks) ==
    LET summary == <<"based_on_available_sources">> \o Bullets(Take(chunks, 3))
    IN  IF Len(summary) > max_response_length
        THEN Take(summary, max_response_length - 3) \o <<"...">>
        ELSE summary

\* Synthesizer._add_source_attributions: one per source_id, first wins.
_add_source_attributions(chunks) ==
    LET firsts == {i \in 1..Len(chunks) :
                      \A j \in 1..(i - 1) : chunks[j].source_id # chunks[i].source_id}
        Nth(p) == chunks[CHOOSE i \in firsts : Cardinality({j \in firsts : j < i}) = p - 1]
    IN  [p \in 1..Cardinality(firsts) |->
            [id        |-> Nth(p).source_id,
             type      |-> Nth(p).source_type,
             relevance |-> Nth(p).semantic_relevance]]

RECURSIVE PerspectivesOf_one_each(_)
PerspectivesOf_one_each(contradictions) ==
    IF contradictions = <<>> THEN <<>>
    ELSE <<[viewpoint |-> Head(contradictions).claim_1, confidence |-> 700, weight |-> 500]>>
         \o PerspectivesOf_one_each(Tail(contradictions))

\* Synthesizer._add_perspectives_from_contradictions
RECURSIVE PerspectivesOf(_)
PerspectivesOf(contradictions) ==
    IF contradictions = <<>> THEN <<>>
    ELSE <<[viewpoint |-> Head(contradictions).claim_1, confidence |-> 700, weight |-> 500],
           [viewpoint |-> Head(contradictions).claim_2, confidence |-> 700, weight |-> 500]>>
         \o PerspectivesOf(Tail(contradictions))

_calculate_confidence_no_penalty(fc, section_count) ==
    Max(0, Min(1000, fc.average_quality_score + Min(100, section_count * 50)))

_calculate_confidence_unclamped(fc, section_count) ==
    fc.average_quality_score + Min(100, section_count * 50)
        - (IF fc.contradictions_detected # <<>> THEN 200 ELSE 0)

\* Synthesizer._calculate_confidence
_calculate_confidence(fc, section_count) ==
    LET base_confidence == fc.average_quality_score
        section_boost   == Min(100, section_count * 50)
        contradiction_penalty == IF fc.contradictions_detected # <<>> THEN 200 ELSE 0
    IN  Max(0, Min(1000, base_confidence + section_boost - contradiction_penalty))

NoContextResponse_confident ==
    FinalResponse(<<"i_couldnt_find_relevant_information">> \o QueryText)

\* The response generate_response builds for a context without chunks
\* (lines 70-89).
NoContextResponse ==
    [FinalResponse(<<"i_couldnt_find_relevant_information">> \o QueryText)
        EXCEPT !.response_quality.completeness = 0,
               !.response_quality.degraded_mode = TRUE,
               !.overall_confidence = 200]

\* Synthesizer.generate_response
generate_response(fc) ==
    IF fc.chunks = <<>>
    THEN NoContextResponse
    ELSE
      LET buckets  == _organize_into_sections(fc.chunks)
          sections == [i \in 1..Len(buckets) |-> _create_response_section(buckets[i])]
          conf     == _calculate_confidence(fc, Len(sections))
      IN  [FinalResponse(_generate_summary(fc.chunks))
             EXCEPT !.sections = sections,
                    !.sources = _add_source_attributions(fc.chunks),
                    !.perspectives =
                        IF fc.contradictions_detected # <<>>
                        THEN Some(PerspectivesOf(Take(fc.contradictions_detected, 2)))
                        ELSE None,
                    !.response_quality.has_contradictions =
                        fc.contradictions_detected # <<>>,
                    !.overall_confidence = conf,
                    !.response_quality.confidence = conf,
                    !.response_quality.completeness =
                        Min(1000, (Len(fc.chunks) * 1000) \div 10),
                    !.response_quality.informativeness = fc.average_quality_score]


---------------------------------------------------------------------------
(* The state after the Orchestrator is constructed and a Query created *)

\* No process_query call is running, no WorkflowState is stored, no tool has
\* been executed.
NothingRunning ==
    /\ invocation = <<>>
    /\ _workflow_states = <<>>
    /\ chunk_objects = <<>>
    /\ last_error = [t \in Tools |-> None]

\* The Orchestrator is constructed and process_query is about to be called
\* with the Query q.
Constructed(q) ==
    /\ NothingRunning
    /\ pc = "start"
    /\ now = 0
    /\ task = [t \in Tools |-> [state |-> "unsubmitted", result |-> None, doneAt |-> 0]]
    /\ doneQueue = <<>>
    /\ invocations = [t \in Tools |-> 0]
    /\ deadlineHit = FALSE
    /\ aggregated = NewAggregatedContext
    /\ aggregated_context = None
    /\ filtered_context = None
    /\ evaluatorOutcome = "not_called"
    /\ synthesizerOutcome = "not_called"
    /\ response = None
    /\ returned = None
    /\ unhandled = FALSE
    /\ query = q
    /\ workflow_state = NewWorkflowState
    /\ history = [messages |-> <<>>, add_message_raised_at |-> 0]
    /\ stepsStarted = <<>>
    /\ config \in [evaluator : {None, Some(Evaluator(quality_threshold, dedup_threshold))},
                   synthesizer : BOOLEAN,
                   conversation_history : BOOLEAN]

Init == Constructed(NewQuery)

Unfinished == {t \in Tools : task[t].state \in {"queued", "running"}}
Running    == {t \in Tools : task[t].state = "running"}

---------------------------------------------------------------------------
(* process_query: entry, and the top-level "except Exception" *)

\* The outer except clause (lines 339-343).  If building the error response
\* raises in turn, the exception leaves process_query.
TopLevelExcept(ws, error) ==
    /\ query' = mark_failed(query, error)
    /\ workflow_state' = record_step_error(ws, "ERROR", error)
    /\ unhandled' = TRUE
    /\ IF _validate(_create_error_response(error))
       THEN returned' = Some(_create_error_response(error)) /\ pc' = "returned"
       ELSE returned' = None /\ pc' = "raised"

\* Lines 197-211 and 390-403: the WorkflowState is created, the retrieval
\* step starts, and one task per tool is submitted; the executor runs the
\* first max_workers of them at once and queues the rest.
Begin ==
    /\ pc = "start"
    /\ workflow_state' = record_step_start(NewWorkflowState, "RETRIEVAL", now)
    /\ stepsStarted' = Append(stepsStarted, "RETRIEVAL")
    /\ task' = [t \in Tools |->
                  [task[t] EXCEPT !.state = IF t <= max_workers THEN "running"
                                                               ELSE "queued"]]
    /\ invocations' = [t \in Tools |-> IF t <= max_workers THEN 1 ELSE 0]
    /\ aggregated' = NewAggregatedContext
    /\ pc' = "as_completed"
    /\ UNCHANGED <<now, doneQueue, deadlineHit, aggregated_context, filtered_context,
                   evaluatorOutcome, synthesizerOutcome, response, returned,
                   unhandled, query, history, config,
                   concurrentVars>>

\* A statement of the completion block (lines 319-335), which no inner try
\* covers, raises: formatting the confidence of a malformed response object,
\* for one.
UnhandledException ==
    /\ pc = "finalize"
    /\ TopLevelExcept(workflow_state, "unhandled error")
    /\ UNCHANGED <<now, task, doneQueue, invocations, deadlineHit, aggregated,
                   aggregated_context, filtered_context, evaluatorOutcome,
                   synthesizerOutcome, response, history, stepsStarted, config,
                   concurrentVars>>

---------------------------------------------------------------------------
(* Retrieval: _retrieve_context_with_retry *)

\* Time passes while the collecting thread is blocked: inside as_completed
\* with nothing to yield and the deadline still ahead, or inside the
\* executor's shutdown(wait=True).  The clock always stops at the deadline.
Tick ==
    /\ now + TickSeconds <= MaxTime
    /\ Unfinished # {}
    /\ \/ pc = "as_completed" /\ doneQueue = <<>> /\ now < DEFAULT_RETRIEVAL_TIMEOUT
       \/ pc = "shutdown"
    /\ now' = IF now < DEFAULT_RETRIEVAL_TIMEOUT
              THEN Min(now + TickSeconds, DEFAULT_RETRIEVAL_TIMEOUT)
              ELSE now + TickSeconds
    /\ UNCHANGED <<pc, task, doneQueue, invocations, deadlineHit, aggregated,
                   aggregated_context, filtered_context, evaluatorOutcome,
                   synthesizerOutcome, response, returned, unhandled, query,
                   workflow_state, history, stepsStarted, config,
                   concurrentVars>>

\* A worker thread's tool.execute ends, with a ToolResult or an exception;
\* the worker then takes the next queued task, if any.  While as_completed
\* is iterating, the finished future is queued for it; after the
\* TimeoutError nothing reads a future any more, so its result is not kept.
ToolFinish(t) ==
    /\ pc \in {"as_completed", "shutdown"}
    /\ task[t].state = "running"
    /\ \E r \in ToolOutcomes(t) :
         LET queued == {u \in Tools : task[u].state = "queued"}
             next   == IF queued = {} THEN 0
                       ELSE CHOOSE u \in queued : \A v \in queued : u <= v
         IN  /\ task' = [u \in Tools |->
                           IF u = t THEN [state |-> "finished",
                                          result |-> IF pc = "as_completed"
                                                     THEN Some(r) ELSE None,
                                          doneAt |-> now]
                           ELSE IF u = next THEN [task[u] EXCEPT !.state = "running"]
                           ELSE task[u]]
             /\ invocations' = [u \in Tools |->
                                  IF u = next THEN invocations[u] + 1 ELSE invocations[u]]
    /\ doneQueue' = IF pc = "as_completed" THEN Append(doneQueue, t) ELSE doneQueue
    /\ UNCHANGED <<pc, now, deadlineHit, aggregated, aggregated_context,
                   filtered_context, evaluatorOutcome, synthesizerOutcome, response,
                   returned, unhandled, query, workflow_state, history,
                   stepsStarted, config,
                   concurrentVars>>

\* The body of the "for future in as_completed(...)" loop (lines 407-447)
\* for the future as_completed yields next; sources_succeeded and
\* sources_failed are written straight into the AggregatedContext.
CollectBody(agg, t, result, remaining) ==
    LET waited == 0   \* the future is finished: future.result returns at once
    IN
    IF remaining <= 0
    THEN [agg EXCEPT !.sources_failed = Append(@, t)]
    ELSE IF waited > Min(PER_TOOL_TIMEOUT, remaining)
    THEN [agg EXCEPT !.sources_failed = Append(@, t)]
    ELSE IF result.status = "raised"
    THEN [agg EXCEPT !.sources_failed = Append(@, t)]
    ELSE IF is_successful(result)
    THEN [agg EXCEPT !.chunks = add_chunks(@, result.chunks),
                     !.sources_consulted = Append(@, t),
                     !.total_chunks_before_dedup = @ + Len(result.chunks)]
    ELSE [agg EXCEPT !.sources_failed = Append(@, t)]

Collect ==
    /\ pc = "as_completed"
    /\ doneQueue # <<>>
    /\ LET t == Head(doneQueue)
       IN  aggregated' = CollectBody(aggregated, t, task[t].result[1],
                                     DEFAULT_RETRIEVAL_TIMEOUT - now)
    /\ doneQueue' = Tail(doneQueue)
    /\ UNCHANGED <<pc, now, task, invocations, deadlineHit, aggregated_context,
                   filtered_context, evaluatorOutcome, synthesizerOutcome, response,
                   returned, unhandled, query, workflow_state, history,
                   stepsStarted, config,
                   concurrentVars>>

\* as_completed finds the deadline passed with futures still pending and
\* raises TimeoutError.  The exception leaves the "with ThreadPoolExecutor"
\* block, whose __exit__ calls shutdown(wait=True).
AsCompletedTimeout ==
    /\ pc = "as_completed"
    /\ doneQueue = <<>>
    /\ Unfinished # {}
    /\ now >= DEFAULT_RETRIEVAL_TIMEOUT
    /\ deadlineHit' = TRUE
    /\ pc' = "shutdown"
    /\ UNCHANGED <<now, task, doneQueue, invocations, aggregated, aggregated_context,
                   filtered_context, evaluatorOutcome, synthesizerOutcome, response,
                   returned, unhandled, query, workflow_state, history,
                   stepsStarted, config,
                   concurrentVars>>

\* Every future was yielded: the loop ends, the executor shuts down at once,
\* lines 449-461 fill in the AggregatedContext and process_query records the
\* step as completed (lines 215-216).
RetrievalReturns ==
    /\ pc = "as_completed"
    /\ doneQueue = <<>>
    /\ Unfinished = {}
    /\ LET agg == [aggregated EXCEPT
                      !.retrieval_time = now,
                      !.total_chunks_after_dedup = Len(aggregated.chunks)]
       IN  /\ aggregated' = agg
           /\ aggregated_context' = Some(agg)
           /\ workflow_state' = record_step_complete(
                  [workflow_state EXCEPT !.aggregated_context = Some(agg)],
                  "RETRIEVAL", now)
    /\ pc' = "evaluation"
    /\ UNCHANGED <<now, task, doneQueue, invocations, deadlineHit, filtered_context,
                   evaluatorOutcome, synthesizerOutcome, response, returned,
                   unhandled, query, history, stepsStarted, config,
                   concurrentVars>>

\* shutdown(wait=True) returns once every task has ended; the TimeoutError
\* then reaches process_query.  Where concurrent.futures.TimeoutError is the
\* builtin TimeoutError it is caught at line 218, elsewhere at line 224; in
\* both cases workflow_state.aggregated_context is still None and the step
\* goes on with a new, empty AggregatedContext.
RetrievalTimeoutCaught ==
    /\ pc = "shutdown"
    /\ Unfinished = {}
    /\ \E builtin \in BOOLEAN :
         workflow_state' = record_step_error(workflow_state, "RETRIEVAL",
             IF builtin THEN "Timeout: futures unfinished" ELSE "futures unfinished")
    /\ aggregated_context' =
         IF workflow_state.aggregated_context # None
         THEN workflow_state.aggregated_context ELSE Some(NewAggregatedContext)
    /\ pc' = "evaluation"
    /\ UNCHANGED <<now, task, doneQueue, invocations, deadlineHit, aggregated,
                   filtered_context, evaluatorOutcome, synthesizerOutcome, response,
                   returned, unhandled, query, history, stepsStarted, config,
                   concurrentVars>>


---------------------------------------------------------------------------
(* Step 2: evaluation (lines 229-279) *)

\* The FilteredContext built at lines 248-266 when the evaluator is not
\* called: every chunk with its semantic relevance as quality score.
UnfilteredContext(agg) ==
    FilteredContext(0, 0,
        [i \in 1..Len(agg.chunks) |->
            FilteredChunk(agg.chunks[i], agg.chunks[i].semantic_relevance)],
        IF agg.chunks # <<>>
        THEN SumSeq([i \in 1..Len(agg.chunks) |-> agg.chunks[i].semantic_relevance])
                 \div Len(agg.chunks)
        ELSE 500)

\* The FilteredContext built at lines 275-279 after the evaluator raised.
EvaluationFallbackContext(agg) == FilteredContext(0, 0, <<>>, 500)

\* The futures and the AggregatedContext local to
\* _retrieve_context_with_retry are out of scope once the retrieval step is
\* over; only process_query's aggregated_context remains.
EvaluationStarts ==
    /\ pc = "evaluation"
    /\ stepsStarted' = Append(stepsStarted, "EVALUATION")
    /\ pc' = "synthesis"
    /\ task' = [t \in Tools |-> [state |-> "released", result |-> None, doneAt |-> 0]]
    /\ aggregated' = NewAggregatedContext
    /\ UNCHANGED <<now, doneQueue, invocations, deadlineHit,
                   aggregated_context, synthesizerOutcome, response, returned,
                   unhandled, query, history, config,
                   concurrentVars>>

\* filter_context returns.
EvaluateOk ==
    /\ EvaluationStarts
    /\ config.evaluator # None /\ aggregated_context[1].chunks # <<>>
    /\ evaluatorOutcome' = "ok"
    /\ filtered_context' = Some(filter_context(config.evaluator[1], aggregated_context[1]))
    /\ workflow_state' = record_step_complete(
           record_step_start(workflow_state, "EVALUATION", now), "EVALUATION", now)

\* filter_context raises.
EvaluateRaises ==
    /\ EvaluationStarts
    /\ config.evaluator # None /\ aggregated_context[1].chunks # <<>>
    /\ evaluatorOutcome' = "raised"
    /\ filtered_context' = Some(EvaluationFallbackContext(aggregated_context[1]))
    /\ workflow_state' = record_step_error(
           record_step_start(workflow_state, "EVALUATION", now), "EVALUATION",
           "evaluator raised")

\* No evaluator is configured, or there is nothing to evaluate.
EvaluateSkipped ==
    /\ EvaluationStarts
    /\ ~(config.evaluator # None /\ aggregated_context[1].chunks # <<>>)
    /\ evaluatorOutcome' = "not_called"
    /\ filtered_context' = Some(UnfilteredContext(aggregated_context[1]))
    /\ workflow_state' = record_step_complete(
           record_step_start(workflow_state, "EVALUATION", now), "EVALUATION", now)

---------------------------------------------------------------------------
(* Step 3: synthesis (lines 281-303) *)

SynthesisStarts ==
    /\ pc = "synthesis"
    /\ stepsStarted' = Append(stepsStarted, "SYNTHESIS")
    /\ UNCHANGED <<now, task, doneQueue, invocations, deadlineHit, aggregated,
                   aggregated_context, filtered_context, evaluatorOutcome,
                   history, config,
                   concurrentVars>>

\* generate_response returns.
SynthesizeOk ==
    /\ SynthesisStarts
    /\ config.synthesizer
    /\ synthesizerOutcome' = "ok"
    /\ response' = Some(generate_response(filtered_context[1]))
    /\ workflow_state' = record_step_complete(
           record_step_start(workflow_state, "SYNTHESIS", now), "SYNTHESIS", now)
    /\ pc' = "memory"
    /\ UNCHANGED <<returned, unhandled, query>>

\* The except clause of the synthesis step: the step is recorded as failed
\* and the response becomes the error response.  An exception raised while
\* building it would reach the top-level except clause.
SynthesisExcept(outcome, error) ==
    LET ws == record_step_error(
                  record_step_start(workflow_state, "SYNTHESIS", now), "SYNTHESIS", error)
        message == IF error = "Synthesizer not configured"
                   THEN "Response generation failed: Synthesizer not configured"
                   ELSE "Response generation failed: synthesizer raised"
    IN  /\ synthesizerOutcome' = outcome
        /\ IF _validate(_create_error_response(message))
           THEN /\ response' = Some(_create_error_response(message))
                /\ workflow_state' = ws
                /\ pc' = "memory"
                /\ UNCHANGED <<returned, unhandled, query>>
           ELSE /\ response' = None
                /\ TopLevelExcept(ws, "answer must be non-empty")

\* generate_response raises.
SynthesizeRaises ==
    /\ SynthesisStarts
    /\ config.synthesizer
    /\ SynthesisExcept("raised", "synthesizer raised")

\* No synthesizer is configured: line 295 raises ValueError.
SynthesizerAbsent ==
    /\ SynthesisStarts
    /\ ~config.synthesizer
    /\ SynthesisExcept("absent", "Synthesizer not configured")

---------------------------------------------------------------------------
(* Step 4: memory update (lines 305-317, _update_memory) *)

Message(role, content, metadata) ==
    [role |-> role, content |-> content, metadata |-> metadata]

MemoryStarts ==
    /\ pc = "memory"
    /\ stepsStarted' = Append(stepsStarted, "MEMORY")
    /\ pc' = "finalize"
    /\ UNCHANGED <<now, task, doneQueue, invocations, deadlineHit, aggregated,
                   aggregated_context, filtered_context, evaluatorOutcome,
                   synthesizerOutcome, response, returned, unhandled, query, config,
                   concurrentVars>>

_update_memory_assistant_first(h, resp, failing) ==
    [messages |-> h.messages
                    \o <<Message("assistant", resp.answer, None)>>
                    \o <<Message("user", QueryText, None)>>,
     add_message_raised_at |-> failing]

\* Orchestrator._update_memory with a ConversationHistory whose add_message
\* raises on its call numbered failing (0: never).  The exception is caught
\* inside _update_memory.
_update_memory(h, resp, failing) ==
    [messages |->
        h.messages
          \o (IF failing = 1 THEN <<>>
              ELSE <<Message("user", QueryText, None)>>)
          \o (IF failing \in {1, 2} THEN <<>>
              ELSE <<Message("assistant", resp.answer,
                             Some([confidence |-> resp.overall_confidence,
                                   sources |-> [i \in 1..Len(resp.sources) |->
                                                   resp.sources[i].type],
                                   section_count |-> Len(resp.sections)]))>>),
     add_message_raised_at |-> failing]

\* The memory step with a conversation history: since _update_memory lets no
\* exception out, process_query records the step as completed.
UpdateMemory ==
    /\ MemoryStarts
    /\ config.conversation_history /\ response # None
    /\ \E failing \in 0..2 : history' = _update_memory(history, response[1], failing)
    /\ workflow_state' = record_step_complete(
           record_step_start(workflow_state, "MEMORY", now), "MEMORY", now)

\* No conversation history was passed: the step starts and nothing is done.
MemorySkipped ==
    /\ MemoryStarts
    /\ ~(config.conversation_history /\ response # None)
    /\ history' = history
    /\ workflow_state' = record_step_start(workflow_state, "MEMORY", now)

---------------------------------------------------------------------------
(* Completion (lines 319-337) *)

Finalize ==
    /\ pc = "finalize"
    /\ query' = mark_completed(query)
    /\ workflow_state' = record_step_complete(workflow_state, "COMPLETE", now)
    /\ returned' = IF response # None THEN response
                   ELSE Some(_create_error_response("Unknown error processing query"))
    /\ pc' = "returned"
    /\ UNCHANGED <<now, task, doneQueue, invocations, deadlineHit, aggregated,
                   aggregated_context, filtered_context, evaluatorOutcome,
                   synthesizerOutcome, response, unhandled, history,
                   stepsStarted, config,
                   concurrentVars>>

---------------------------------------------------------------------------

Next ==
    \/ Begin
    \/ UnhandledException
    \/ Tick
    \/ \E t \in Tools : ToolFinish(t)
    \/ Collect
    \/ AsCompletedTimeout
    \/ RetrievalReturns
    \/ RetrievalTimeoutCaught
    \/ EvaluateOk
    \/ EvaluateRaises
    \/ EvaluateSkipped
    \/ SynthesizeOk
    \/ SynthesizeRaises
    \/ SynthesizerAbsent
    \/ UpdateMemory
    \/ MemorySkipped
    \/ Finalize

Spec == Init /\ [][Next]_vars


---------------------------------------------------------------------------
(* The evaluation step on its own: process_query from the start of step 2, *)
(* for an Evaluator with any thresholds and any aggregated fragments.      *)

\* Sequences over S of length at most n.
SeqsUpTo(S, n) == UNION {[1..k -> S] : k \in 0..n}

QualityThresholds == {0, quality_threshold, 1000}
DedupThresholds   == {0, dedup_threshold, 1000}

InputSourceTypes == {"arxiv", "web"}
\* The last text stands for one of whitespace only: it is a non-empty string
\* (ContextChunk accepts it) with no words in it.
InputTexts       == {TextOf(1, 1), TextOf(2, 1), <<>>}
InputRelevances  == {0, 500, 1000}

\* A ContextChunk as retrieval leaves it in the AggregatedContext.
ContextChunk(id, source_type, text, semantic_relevance) ==
    [id                 |-> id,
     query_id           |-> QueryId,
     source_type        |-> source_type,
     text               |-> text,
     source_id          |-> id,
     source_date        |-> None,
     semantic_relevance |-> semantic_relevance]

InputChunkLists ==
    {[i \in 1..Len(a) |-> ContextChunk(i, a[i][1], a[i][2], a[i][3])] :
        a \in SeqsUpTo(InputSourceTypes \X InputTexts \X InputRelevances,
                       MaxInputChunks)}

\* The state process_query is in when retrieval has returned the chunks.
AfterRetrieval(chunks) ==
    LET agg == [NewAggregatedContext EXCEPT
                   !.chunks = chunks,
                   !.total_chunks_before_dedup = Len(chunks),
                   !.total_chunks_after_dedup = Len(chunks)]
    IN  /\ NothingRunning
        /\ pc = "evaluation"
        /\ now = 0
        /\ task = [t \in Tools |-> [state |-> "released", result |-> None, doneAt |-> 0]]
        /\ doneQueue = <<>>
        /\ invocations = [t \in Tools |-> 1]
        /\ deadlineHit = FALSE
        /\ aggregated = NewAggregatedContext
        /\ aggregated_context = Some(agg)
        /\ filtered_context = None
        /\ evaluatorOutcome = "not_called"
        /\ synthesizerOutcome = "not_called"
        /\ response = None
        /\ returned = None
        /\ unhandled = FALSE
        /\ query = [status |-> "submitted", error_message |-> None]
        /\ workflow_state = record_step_complete(
               [record_step_start(NewWorkflowState, "RETRIEVAL", 0)
                   EXCEPT !.aggregated_context = Some(agg)], "RETRIEVAL", 0)
        /\ history = [messages |-> <<>>, add_message_raised_at |-> 0]
        /\ stepsStarted = <<"RETRIEVAL">>

EvaluationInit ==
    /\ \E chunks \in InputChunkLists : AfterRetrieval(chunks)
    /\ config \in [evaluator : {None} \cup {Some(Evaluator(qt, dt)) :
                                   qt \in QualityThresholds, dt \in DedupThresholds},
                   synthesizer : {TRUE},
                   conversation_history : {FALSE}]

EvaluationNext ==
    \/ EvaluateOk
    \/ EvaluateRaises
    \/ EvaluateSkipped

SpecEvaluation == EvaluationInit /\ [][EvaluationNext]_vars

---------------------------------------------------------------------------
(* The synthesis step on its own: process_query from the start of step 3,  *)
(* for any FilteredContext, with or without detected contradictions.       *)

\* ContradictionRecord
ContradictionRecord(claim_1, claim_1_source, claim_2, claim_2_source) ==
    [claim_1        |-> claim_1,
     claim_1_source |-> claim_1_source,
     claim_2        |-> claim_2,
     claim_2_source |-> claim_2_source,
     severity       |-> "moderate"]

InputContradictions ==
    {ContradictionRecord(TextOf(1, 1), 1, TextOf(2, 1), 2),
     ContradictionRecord(TextOf(2, 1), 2, TextOf(1, 1), 1)}

InputQualityScores == {quality_threshold, 900}
InputAverages      == {0, 150, 500, 950, 1000}

InputFilteredChunkLists ==
    {[i \in 1..Len(a) |-> FilteredChunk(ContextChunk(i, a[i][1], a[i][2], 1000), a[i][3])] :
        a \in SeqsUpTo(InputSourceTypes \X {TextOf(1, 1), TextOf(2, 1)} \X InputQualityScores,
                       MaxInputChunks)}

\* The FilteredContexts handed to the synthesizer.  A contradiction is
\* between two kept fragments, so one is present only with two or more.
InputFilteredContexts ==
    {[FilteredContext(0, 0, chunks, avg) EXCEPT !.contradictions_detected = cs] :
        chunks \in InputFilteredChunkLists,
        avg \in InputAverages,
        cs \in SeqsUpTo(InputContradictions, MaxContradictions)}

\* The state process_query is in when evaluation has produced fc.
AfterEvaluation(fc) ==
    /\ NothingRunning
    /\ pc = "synthesis"
    /\ now = 0
    /\ task = [t \in Tools |-> [state |-> "released", result |-> None, doneAt |-> 0]]
    /\ doneQueue = <<>>
    /\ invocations = [t \in Tools |-> 1]
    /\ deadlineHit = FALSE
    /\ aggregated = NewAggregatedContext
    /\ aggregated_context = Some(NewAggregatedContext)
    /\ filtered_context = Some(fc)
    /\ evaluatorOutcome = "ok"
    /\ synthesizerOutcome = "not_called"
    /\ response = None
    /\ returned = None
    /\ unhandled = FALSE
    /\ query = [status |-> "submitted", error_message |-> None]
    /\ workflow_state = record_step_complete(
           record_step_start(
               record_step_complete(
                   [record_step_start(NewWorkflowState, "RETRIEVAL", 0)
                       EXCEPT !.aggregated_context = Some(NewAggregatedContext)],
                   "RETRIEVAL", 0),
               "EVALUATION", 0),
           "EVALUATION", 0)
    /\ history = [messages |-> <<>>, add_message_raised_at |-> 0]
    /\ stepsStarted = <<"RETRIEVAL", "EVALUATION">>

SynthesisInit ==
    /\ \E fc \in InputFilteredContexts :
          /\ fc.contradictions_detected # <<>> => Len(fc.chunks) >= 2
          /\ AfterEvaluation(fc)
    /\ config = [evaluator |-> Some(Evaluator(quality_threshold, dedup_threshold)),
                 synthesizer |-> TRUE,
                 conversation_history |-> FALSE]

SynthesisNext ==
    \/ SynthesizeOk
    \/ SynthesizeRaises

SpecSynthesis == SynthesisInit /\ [][SynthesisNext]_vars

---------------------------------------------------------------------------
(* Properties of process_query *)

AggregatedIds == {aggregated_context[1].chunks[i].id :
                     i \in 1..Len(aggregated_context[1].chunks)}

\* The tools whose execute returned a usable result before the deadline.
CompletedInTime ==
    {t \in Tools : /\ task[t].state = "finished"
                   /\ task[t].result # None
                   /\ task[t].doneAt < DEFAULT_RETRIEVAL_TIMEOUT
                   /\ task[t].result[1].status \in {"success", "degraded"}}

\* The tools still running when the deadline passed.
OutstandingAtDeadline ==
    {t \in Tools : task[t].state = "running"
                   \/ (task[t].state = "finished" /\ task[t].result = None)}

IsErrorShape(r) ==
    /\ r.overall_confidence = 0
    /\ r.response_quality.degraded_mode
    /\ r.response_quality.confidence = 0
    /\ r.answer # <<>> /\ Head(r.answer) = "i_encountered_an_error"

\* C1: whatever the tools, the evaluator, the synthesizer and the memory
\* update do (succeed, return a failure, raise), no exception leaves
\* process_query, and what it returns is a FinalResponse with a non-empty
\* answer and an overall_confidence between 0 and 1.
C1_NoExceptionValidResponse ==
    /\ pc # "raised"
    /\ pc = "returned" =>
          /\ returned # None
          /\ returned[1].answer # <<>>
          /\ returned[1].overall_confidence >= 0
          /\ returned[1].overall_confidence <= 1000

\* A tool failed, the evaluator raised, the synthesizer raised, the first
\* add_message raised, and process_query returned.
C1_Witness ==
    /\ pc = "returned"
    /\ aggregated_context[1].sources_failed # <<>>
    /\ evaluatorOutcome = "raised"
    /\ synthesizerOutcome = "raised"
    /\ config.conversation_history
    /\ history.messages = <<>> /\ history.add_message_raised_at = 1

\* C2: when the deadline passes with a tool outstanding, the fragments of
\* every tool that completed successfully before the deadline are in the
\* AggregatedContext handed to evaluation.
C2_PartialFragmentsKept ==
    (pc = "evaluation" /\ deadlineHit) =>
        \A t \in CompletedInTime :
            \A k \in 1..Len(task[t].result[1].chunks) :
                task[t].result[1].chunks[k].id \in AggregatedIds

\* C3: when the deadline passes with a tool unfinished, the
\* AggregatedContext lists that tool in sources_failed and lists in
\* sources_consulted every tool that completed successfully before it.
C3_DeadlineSourcesRecorded ==
    (pc = "evaluation" /\ deadlineHit) =>
        /\ \A t \in OutstandingAtDeadline :
               t \in Range(aggregated_context[1].sources_failed)
        /\ \A t \in CompletedInTime :
               t \in Range(aggregated_context[1].sources_consulted)

\* C4: the deadline is a soft cutoff: once it has passed, process_query does
\* not wait for the tool tasks that are still running.
C4_DeadlineIsSoftCutoff ==
    ~(pc = "shutdown" /\ now > DEFAULT_RETRIEVAL_TIMEOUT /\ Running # {})

\* C5: when every tool finishes before the deadline, in whatever order, a
\* tool is in sources_consulted exactly if its status is success or
\* degraded, it is in sources_failed exactly once otherwise, no tool is in
\* both or twice in either, and chunks holds exactly the fragments of the
\* consulted tools.
C5_AllInTimeRecorded ==
    (/\ pc = "evaluation" /\ ~deadlineHit
     /\ \A t \in Tools : task[t].doneAt < DEFAULT_RETRIEVAL_TIMEOUT) =>
        LET agg == aggregated_context[1]
            ok(t) == task[t].result[1].status \in {"success", "degraded"}
        IN  /\ \A t \in Tools :
                 /\ Count(agg.sources_consulted, t) = (IF ok(t) THEN 1 ELSE 0)
                 /\ Count(agg.sources_failed, t) = (IF ok(t) THEN 0 ELSE 1)
            /\ Range(agg.chunks) =
                 UNION {{[task[t].result[1].chunks[k] EXCEPT !.query_id = QueryId] :
                            k \in 1..Len(task[t].result[1].chunks)} :
                        t \in {u \in Tools : ok(u)}}
            /\ Len(agg.chunks) =
                 SumSeq([t \in Tools |->
                            IF ok(t) THEN Len(task[t].result[1].chunks) ELSE 0])

\* The later tool finished first, degraded and with a fragment; the other
\* one raised; both before the deadline.
C5_Witness ==
    /\ pc = "evaluation" /\ ~deadlineHit
    /\ \A t \in Tools : task[t].doneAt < DEFAULT_RETRIEVAL_TIMEOUT
    /\ task[2].result[1].status = "degraded"
    /\ task[2].result[1].chunks # <<>>
    /\ task[1].result[1].status = "raised"
    /\ task[2].doneAt < task[1].doneAt

\* C6: a tool that fails is invoked again, up to max_retries more times,
\* before it is recorded as failed.
C6_FailedToolWasRetried ==
    (pc = "evaluation" /\ ~deadlineHit) =>
        \A t \in Range(aggregated_context[1].sources_failed) :
            task[t].doneAt < DEFAULT_RETRIEVAL_TIMEOUT =>
                invocations[t] = 1 + max_retries

\* C7: if the evaluator raises, the synthesizer is invoked with a
\* FilteredContext that holds every aggregated fragment, and the Evaluation
\* step is recorded as failed.
C7_EvaluatorFailurePassesAll ==
    (evaluatorOutcome = "raised" /\ synthesizerOutcome \in {"ok", "raised"}) =>
        /\ {filtered_context[1].chunks[i].id :
               i \in 1..Len(filtered_context[1].chunks)} = AggregatedIds
        /\ "EVALUATION" \in Range(workflow_state.failed_steps)

\* C8: if the synthesizer raises or none is configured, process_query
\* returns the fixed error response (confidence 0, degraded_mode set, the
\* answer naming the failure) and Synthesis is among the failed steps.
C8_SynthesisFailureResponse ==
    (pc = "returned" /\ synthesizerOutcome \in {"raised", "absent"}) =>
        /\ IsErrorShape(returned[1])
        /\ "SYNTHESIS" \in Range(workflow_state.failed_steps)
        /\ ~unhandled =>
             returned[1].answer[Len(returned[1].answer)] =
                 (IF synthesizerOutcome = "absent"
                  THEN "Response generation failed: Synthesizer not configured"
                  ELSE "Response generation failed: synthesizer raised")

\* Retrieval and evaluation went well, the synthesizer raised, and the
\* error response was returned.
C8_Witness ==
    /\ pc = "returned" /\ ~unhandled
    /\ synthesizerOutcome = "raised"
    /\ evaluatorOutcome = "ok"
    /\ filtered_context[1].chunks # <<>>

\* C9: Query.status is completed whenever only tracked steps failed; it is
\* failed only when the top-level except clause ran, and then error_message
\* is set and the response has the error shape.
C9_QueryStatus ==
    pc = "returned" =>
        /\ ~unhandled => query.status = "completed" /\ query.error_message = None
        /\ unhandled => /\ query.status = "failed"
                        /\ query.error_message = Some("unhandled error")
                        /\ IsErrorShape(returned[1])

\* The synthesizer failed, a tracked failure, and then the completion block
\* raised: the top-level except clause ran.
C9_Witness ==
    /\ pc = "returned" /\ unhandled
    /\ query.status = "failed"
    /\ workflow_state.failed_steps = <<"SYNTHESIS", "ERROR">>

\* C10: the steps start in the order Retrieval, Evaluation, Synthesis,
\* Memory, and when process_query returns each of Retrieval, Evaluation and
\* Synthesis is in exactly one of completed_steps and failed_steps, once.
C10_StepsInOrderOnce ==
    /\ stepsStarted =
           Take(<<"RETRIEVAL", "EVALUATION", "SYNTHESIS", "MEMORY">>, Len(stepsStarted))
    /\ pc = "returned" =>
          /\ Len(stepsStarted) = 4
          /\ \A s \in {"RETRIEVAL", "EVALUATION", "SYNTHESIS"} :
                 Count(workflow_state.completed_steps, s)
                     + Count(workflow_state.failed_steps, s) = 1

\* A return with a mix: retrieval failed, evaluation completed, synthesis
\* failed.
C10_Witness ==
    /\ pc = "returned"
    /\ "RETRIEVAL" \in Range(workflow_state.failed_steps)
    /\ "EVALUATION" \in Range(workflow_state.completed_steps)
    /\ "SYNTHESIS" \in Range(workflow_state.failed_steps)
    /\ "MEMORY" \in Range(workflow_state.completed_steps)

\* C11: every step failure is recorded: when add_message of the supplied
\* conversation history raises, Memory is in failed_steps and step_errors
\* holds a message for it when process_query returns.
C11_MemoryFailureRecorded ==
    (pc = "returned" /\ config.conversation_history
        /\ history.add_message_raised_at # 0) =>
        /\ "MEMORY" \in Range(workflow_state.failed_steps)
        /\ "memory" \in DictKeys(workflow_state.step_errors)

\* C12: with a conversation history supplied and no add_message raising,
\* exactly two messages are appended, in this order: a user message carrying
\* query.text, then an assistant message carrying the response's answer and
\* tagged with its confidence (returned is that response unless the
\* top-level except clause replaced it); with no history nothing is appended.
C12_TwoMessagesInOrder ==
    pc = "returned" =>
        /\ (config.conversation_history /\ history.add_message_raised_at = 0) =>
              /\ Len(history.messages) = 2
              /\ history.messages[1].role = "user"
              /\ history.messages[1].content = QueryText
              /\ history.messages[2].role = "assistant"
              /\ history.messages[2].content = response[1].answer
              /\ history.messages[2].metadata # None
              /\ history.messages[2].metadata[1].confidence =
                     response[1].overall_confidence
              /\ ~unhandled => returned = response
        /\ ~config.conversation_history => history.messages = <<>>

\* A synthesized answer with sections was returned and both messages were
\* appended.
C12_Witness ==
    /\ pc = "returned" /\ ~unhandled
    /\ config.conversation_history /\ history.add_message_raised_at = 0
    /\ synthesizerOutcome = "ok"
    /\ returned[1].sections # <<>>
    /\ Len(history.messages) = 2

---------------------------------------------------------------------------
(* Properties of the evaluation step *)

KeptIds == {filtered_context[1].chunks[i].id : i \in 1..Len(filtered_context[1].chunks)}

\* The removed-fragment record for the chunk exists and carries the reason.
RemovedFor(chunk, reason) ==
    \E i \in 1..Len(filtered_context[1].removed_chunks) :
        /\ filtered_context[1].removed_chunks[i].original_chunk_id = chunk.id
        /\ filtered_context[1].removed_chunks[i].reason = reason

\* C13: given two fragments with identical text that both score at or above
\* the quality threshold, filter_context keeps the higher-scored one and
\* drops the lower-scored one with a record of reason deduplicated, whatever
\* dedup threshold the Evaluator was built with.
C13_IdenticalTextDeduplicated ==
    LET chunks == aggregated_context[1].chunks
        ev     == config.evaluator[1]
    IN  (/\ evaluatorOutcome = "ok"
         /\ Len(chunks) = 2
         /\ chunks[1].text = chunks[2].text
         /\ calculate_quality_score(chunks[1]) # calculate_quality_score(chunks[2])
         /\ \A i \in 1..2 : calculate_quality_score(chunks[i]) >= ev.quality_threshold) =>
            LET hi == IF calculate_quality_score(chunks[1]) > calculate_quality_score(chunks[2])
                      THEN 1 ELSE 2
            IN  /\ KeptIds = {chunks[hi].id}
                /\ RemovedFor(chunks[3 - hi], "deduplicated")

\* C13, for dedup thresholds below 1: given two fragments with identical
\* text of at least one word that both score at or above the quality
\* threshold, filter_context keeps the higher-scored one and drops the other
\* with a record of reason deduplicated.  (Similarity is never above 1, and
\* is 0 between texts without words.)
C13_IdenticalTextDeduplicatedBelowOne ==
    LET chunks == aggregated_context[1].chunks
        ev     == config.evaluator[1]
    IN  (/\ evaluatorOutcome = "ok"
         /\ Len(chunks) = 2
         /\ chunks[1].text = chunks[2].text
         /\ chunks[1].text # <<>>
         /\ ev.dedup_threshold < 1000
         /\ calculate_quality_score(chunks[1]) # calculate_quality_score(chunks[2])
         /\ \A i \in 1..2 : calculate_quality_score(chunks[i]) >= ev.quality_threshold) =>
            LET hi == IF calculate_quality_score(chunks[1]) > calculate_quality_score(chunks[2])
                      THEN 1 ELSE 2
            IN  /\ KeptIds = {chunks[hi].id}
                /\ filtered_context[1].filtered_chunk_count = 1
                /\ RemovedFor(chunks[3 - hi], "deduplicated")

\* With the default thresholds, the second of two fragments with the same
\* words scored higher and was kept; the first was dropped as a duplicate.
C13_Witness ==
    /\ evaluatorOutcome = "ok"
    /\ config.evaluator = Some(Evaluator(quality_threshold, dedup_threshold))
    /\ Len(aggregated_context[1].chunks) = 2
    /\ aggregated_context[1].chunks[1].text = aggregated_context[1].chunks[2].text
    /\ aggregated_context[1].chunks[1].text # <<>>
    /\ KeptIds = {2}
    /\ RemovedFor(aggregated_context[1].chunks[1], "deduplicated")

\* C14: filter_context never keeps a fragment that scores below the quality
\* threshold; each such fragment gets a removed-fragment record of reason
\* low_quality; when it is the only fragment the result keeps nothing.
C14_LowQualityDropped ==
    LET chunks == aggregated_context[1].chunks
        ev     == config.evaluator[1]
        fc     == filtered_context[1]
    IN  evaluatorOutcome = "ok" =>
          /\ \A i \in 1..Len(fc.chunks) : fc.chunks[i].quality_score >= ev.quality_threshold
          /\ \A i \in 1..Len(chunks) :
                calculate_quality_score(chunks[i]) < ev.quality_threshold =>
                    /\ chunks[i].id \notin KeptIds
                    /\ RemovedFor(chunks[i], "low_quality")
          /\ (Len(chunks) = 1
                /\ calculate_quality_score(chunks[1]) < ev.quality_threshold) =>
                    /\ fc.chunks = <<>>
                    /\ fc.filtered_chunk_count = 0
                    /\ Len(fc.removed_chunks) = 1

\* The only fragment scored below the default threshold and was dropped.
C14_Witness ==
    /\ evaluatorOutcome = "ok"
    /\ config.evaluator = Some(Evaluator(quality_threshold, dedup_threshold))
    /\ Len(aggregated_context[1].chunks) = 1
    /\ filtered_context[1].chunks = <<>>
    /\ filtered_context[1].removed_chunks[1].reason = "low_quality"

\* C15: filtered_chunk_count <= original_chunk_count in every
\* FilteredContext the program produces: those filter_context returns and
\* those process_query builds when the evaluator is not called or raises.
C15_FilteredCountBounded ==
    filtered_context # None =>
        filtered_context[1].filtered_chunk_count
            <= filtered_context[1].original_chunk_count

\* filter_context kept one of two fragments.
C15_Witness ==
    /\ evaluatorOutcome = "ok"
    /\ filtered_context[1].original_chunk_count = 2
    /\ filtered_context[1].filtered_chunk_count = 1
    /\ Len(filtered_context[1].chunks) = 1

\* C20: in every FilteredContext filter_context returns,
\* average_quality_score is the mean quality_score of the kept fragments,
\* 0 when none is kept.
C20_AverageIsMeanOfKept ==
    LET fc == filtered_context[1]
    IN  evaluatorOutcome = "ok" =>
            fc.average_quality_score =
                (IF fc.chunks = <<>> THEN 0
                 ELSE SumSeq([i \in 1..Len(fc.chunks) |-> fc.chunks[i].quality_score])
                          \div Len(fc.chunks))

---------------------------------------------------------------------------
(* Properties of the synthesis step *)

\* C16: given a FilteredContext without fragments, generate_response returns
\* the fixed degraded response: degraded_mode set, overall_confidence 0.2,
\* completeness 0, a non-empty apology, no section, no source attribution
\* and no perspectives.
C16_EmptyContextResponse ==
    (synthesizerOutcome = "ok" /\ filtered_context[1].chunks = <<>>) =>
        LET r == response[1]
        IN  /\ r.response_quality.degraded_mode
            /\ r.overall_confidence = 200
            /\ r.response_quality.completeness = 0
            /\ r.answer # <<>>
            /\ Head(r.answer) = "i_couldnt_find_relevant_information"
            /\ r.sections = <<>>
            /\ r.sources = <<>>
            /\ r.perspectives = None

\* generate_response was handed a context without fragments whose
\* average_quality_score is high, and returned.
C16_Witness ==
    /\ synthesizerOutcome = "ok"
    /\ filtered_context[1].chunks = <<>>
    /\ filtered_context[1].average_quality_score = 1000
    /\ response # None

C18_ConfidenceFormula ==
    (synthesizerOutcome = "ok" /\ filtered_context[1].chunks # <<>>) =>
        LET fc == filtered_context[1]
            r  == response[1]
            raw == fc.average_quality_score
                       + (IF 50 * Len(r.sections) < 100 THEN 50 * Len(r.sections) ELSE 100)
                       - (IF fc.contradictions_detected # <<>> THEN 200 ELSE 0)
        IN  /\ r.overall_confidence = (IF raw < 0 THEN 0 ELSE IF raw > 1000 THEN 1000 ELSE raw)
            /\ fc.contradictions_detected # <<>> =>
                 r.overall_confidence <
                     generate_response([fc EXCEPT !.contradictions_detected = <<>>])
                         .overall_confidence

\* A contradiction was detected among fragments of two source types with
\* average score 1: the confidence is 0.9, where it would be 1 without.
C18_Witness ==
    /\ synthesizerOutcome = "ok"
    /\ filtered_context[1].contradictions_detected # <<>>
    /\ filtered_context[1].average_quality_score = 1000
    /\ Len(response[1].sections) = 2
    /\ response[1].overall_confidence = 900

---------------------------------------------------------------------------
(* Properties of retrieval timing *)

\* C19: the per-tool cap holds whatever the overall deadline: a tool whose
\* execution takes longer than the cap (8 s) and ends before the retrieval
\* deadline (15 s) is recorded in sources_failed and contributes no fragment.
\* (Every tool starts running at time 0, so doneAt is its execution time.)
C19_PerToolCapEnforced ==
    (pc = "evaluation" /\ ~deadlineHit) =>
        \A t \in Tools :
            (/\ task[t].state = "finished"
             /\ task[t].doneAt > PER_TOOL_TIMEOUT
             /\ task[t].doneAt < DEFAULT_RETRIEVAL_TIMEOUT) =>
                /\ t \in Range(aggregated_context[1].sources_failed)
                /\ t \notin Range(aggregated_context[1].sources_consulted)
                /\ \A i \in 1..Len(aggregated_context[1].chunks) :
                       aggregated_context[1].chunks[i].source_id \notin {10 * t + k : k \in 1..MaxChunks}

---------------------------------------------------------------------------
(* Properties of contradiction detection *)

\* C21: after filter_context, every two kept fragments of different source
\* kinds, one of whose texts holds one keyword of a conflict pair and the
\* other its counterpart, are recorded as a contradiction in
\* contradictions_detected, and no recorded contradiction is between
\* fragments of the same source kind.
C21_ContradictionsRecorded ==
    evaluatorOutcome = "ok" =>
        LET fc == filtered_context[1]
            Recorded(a, b) ==
                \E k \in 1..Len(fc.contradictions_detected) :
                    {fc.contradictions_detected[k].claim_1_source,
                     fc.contradictions_detected[k].claim_2_source}
                        = {a.source_id, b.source_id}
        IN  \A i \in 1..Len(fc.chunks), j \in 1..Len(fc.chunks) :
               (/\ i < j
                /\ fc.chunks[i].source_type # fc.chunks[j].source_type
                /\ \/ _contains_potential_contradiction(fc.chunks[i].text, fc.chunks[j].text)
                   \/ _contains_potential_contradiction(fc.chunks[j].text, fc.chunks[i].text))
                    => Recorded(fc.chunks[i], fc.chunks[j])

---------------------------------------------------------------------------
(* Properties of the degraded-mode flag *)

\* C22: every response process_query returns that was synthesized from
\* evidence the evaluator did not filter (no evaluator, evaluation skipped,
\* or the evaluator raised), or from no evidence at all, has
\* response_quality.degraded_mode set.
C22_UnfilteredIsDegraded ==
    (/\ pc = "returned"
     /\ synthesizerOutcome = "ok"
     /\ evaluatorOutcome # "ok" \/ filtered_context[1].chunks = <<>>) =>
        returned[1].response_quality.degraded_mode

---------------------------------------------------------------------------
(* Properties of the Query lifecycle *)

\* C23: a Query follows submitted -> processing -> completed|failed: while
\* process_query is running on it (after it began and before it returned)
\* its status is processing.
C23_ProcessingWhileRunning ==
    pc \notin {"start", "returned", "raised"} => query.status = "processing"

---------------------------------------------------------------------------
(* The Query over its life: process_query called with a Query that an       *)
(* earlier call has brought to completed or failed, and the caller's own    *)
(* calls of the Query's methods once process_query has returned.            *)

\* The Query as an earlier process_query left it.
ProcessedQueries ==
    {mark_completed(NewQuery), mark_failed(NewQuery, "unhandled error")}

LifecycleInit == \E q \in ProcessedQueries : Constructed(q)

\* The caller calls a method of the Query it holds.
CallerMarks(q) ==
    /\ pc = "returned"
    /\ query' = q
    /\ UNCHANGED <<pc, now, task, doneQueue, invocations, deadlineHit, aggregated,
                   aggregated_context, filtered_context, evaluatorOutcome,
                   synthesizerOutcome, response, returned, unhandled,
                   workflow_state, history, stepsStarted, config,
                   concurrentVars>>

CallerMarksProcessing == CallerMarks(mark_processing(query))

CallerMarksCompleted == CallerMarks(mark_completed(query))

CallerMarksFailed == CallerMarks(mark_failed(query, "caller error"))

LifecycleNext ==
    \/ Next
    \/ CallerMarksProcessing
    \/ CallerMarksCompleted
    \/ CallerMarksFailed

SpecLifecycle == LifecycleInit /\ [][LifecycleNext]_vars

\* C24: once a Query is completed or failed, no later operation changes its
\* status: not mark_processing, mark_completed or mark_failed, and not
\* passing the same Query to process_query again.
C24_TerminalStatusKept ==
    [][query.status \in {"completed", "failed"} => query'.status = query.status]_vars

---------------------------------------------------------------------------
(* Properties of the WorkflowState *)

\* C25: the per-query state machine ends in a terminal state: when
\* process_query returns, current_step is Complete on the normal path and
\* Error on the top-level exception path.
C25_EndsInTerminalStep ==
    pc = "returned" =>
        workflow_state.current_step =
            Some(IF unhandled THEN "ERROR" ELSE "COMPLETE")

\* C26: once a step has been started and then completed, step_times holds
\* for it the time that elapsed between the two calls.  (Retrieval starts at
\* time 0 of the clock; each later step starts and completes at one reading
\* of it, so its elapsed time is 0.)
C26_StepTimesHoldElapsed ==
    /\ "RETRIEVAL" \in Range(workflow_state.completed_steps) =>
           DictGet(workflow_state.step_times, "retrieval")
               = aggregated_context[1].retrieval_time
    /\ \A s \in {"EVALUATION", "SYNTHESIS", "MEMORY"} :
           s \in Range(workflow_state.completed_steps) =>
               DictGet(workflow_state.step_times, StepValue(s)) = 0

---------------------------------------------------------------------------
(* Properties of the order of the kept fragments *)

\* C27: the kept fragments of the FilteredContext filter_context returns are
\* in order of non-increasing quality score, and kept fragments of equal
\* score are in the order they had in the AggregatedContext; each carries
\* the score computed for it.  Score and position order the fragments
\* totally, so the kept sequence is determined by the input sequence.
C27_KeptOrderedStable ==
    evaluatorOutcome = "ok" =>
        LET kept   == filtered_context[1].chunks
            chunks == aggregated_context[1].chunks
            Pos(c) == CHOOSE p \in 1..Len(chunks) : chunks[p].id = c.id
        IN  /\ \A i \in 1..Len(kept), j \in 1..Len(kept) :
                  i < j =>
                      /\ kept[i].quality_score >= kept[j].quality_score
                      /\ kept[i].quality_score = kept[j].quality_score
                             => Pos(kept[i]) < Pos(kept[j])
            /\ \A i \in 1..Len(kept) :
                  kept[i].quality_score = calculate_quality_score(chunks[Pos(kept[i])])

\* Two fragments of equal score were both kept, in their input order.
C27_Witness ==
    /\ evaluatorOutcome = "ok"
    /\ Len(filtered_context[1].chunks) = 2
    /\ filtered_context[1].chunks[1].quality_score
           = filtered_context[1].chunks[2].quality_score
    /\ filtered_context[1].chunks[1].id = aggregated_context[1].chunks[1].id
    /\ filtered_context[1].chunks[1].text # filtered_context[1].chunks[2].text

---------------------------------------------------------------------------
(* Properties of the partition filter_context makes *)

\* C30: filter_context partitions its input: every input fragment is either
\* one kept fragment or the subject of one removed-fragment record, of
\* reason deduplicated or low_quality, and never both; so
\* len(chunks) + len(removed_chunks) = original_chunk_count and
\* filtered_chunk_count = len(chunks).
C30_FilterPartitionsInput ==
    evaluatorOutcome = "ok" =>
        LET fc     == filtered_context[1]
            chunks == aggregated_context[1].chunks
            Kept(c)    == {i \in 1..Len(fc.chunks) : fc.chunks[i].id = c.id}
            Removed(c) == {i \in 1..Len(fc.removed_chunks) :
                              fc.removed_chunks[i].original_chunk_id = c.id}
        IN  /\ \A p \in 1..Len(chunks) :
                  Cardinality(Kept(chunks[p])) + Cardinality(Removed(chunks[p])) = 1
            /\ \A i \in 1..Len(fc.removed_chunks) :
                  fc.removed_chunks[i].reason \in {"deduplicated", "low_quality"}
            /\ fc.original_chunk_count = Len(chunks)
            /\ Len(fc.chunks) + Len(fc.removed_chunks) = fc.original_chunk_count
            /\ fc.filtered_chunk_count = Len(fc.chunks)

\* Of two fragments one was kept and the other removed as its duplicate.
C30_Witness ==
    /\ evaluatorOutcome = "ok"
    /\ Len(aggregated_context[1].chunks) = 2
    /\ Len(filtered_context[1].chunks) = 1
    /\ Len(filtered_context[1].removed_chunks) = 1
    /\ filtered_context[1].removed_chunks[1].reason = "deduplicated"
    /\ filtered_context[1].removed_chunks[1].original_chunk_id
           # filtered_context[1].chunks[1].id

---------------------------------------------------------------------------
(* Steps 2 and 3 together: process_query from the start of step 2 to the    *)
(* synthesized response, for lists of more fragments than the summary uses, *)
(* with and without an evaluator.                                           *)

MaxSummaryChunks == 4   \* fragments in an AggregatedContext given to steps 2 and 3

SummaryRelevances == {800, 1000}

\* The text of the fragment at position i names the position, so that no
\* two fragments are near-duplicates and the answer shows which were used.
SummaryText(i) ==
    <<"fragment", <<"one", "two", "three", "four", "five", "six">>[i]>>

SummaryChunkLists ==
    {[i \in 1..Len(a) |-> ContextChunk(i, "web", SummaryText(i), a[i])] :
        a \in SeqsUpTo(SummaryRelevances, MaxSummaryChunks)}

SummaryInit ==
    /\ \E chunks \in SummaryChunkLists : AfterRetrieval(chunks)
    /\ config \in [evaluator : {None, Some(Evaluator(quality_threshold, dedup_threshold))},
                   synthesizer : {TRUE},
                   conversation_history : {FALSE}]

SummaryNext ==
    \/ EvaluateOk
    \/ EvaluateRaises
    \/ EvaluateSkipped
    \/ SynthesizeOk
    \/ SynthesizeRaises

SpecSummary == SummaryInit /\ [][SummaryNext]_vars

\* C28: the answer of every response synthesized from non-empty evidence is
\* built from the 3 highest-quality fragments of that evidence (from all of
\* them when there are fewer): no fragment left out of the answer has a
\* higher quality score than one used in it.  This on every path, the
\* unfiltered one included.
C28_AnswerFromTopThree ==
    (synthesizerOutcome = "ok" /\ filtered_context[1].chunks # <<>>) =>
        LET chunks == filtered_context[1].chunks
        IN  \E picks \in SeqsUpTo(1..Len(chunks), 3) :
               /\ Len(picks) = Min(3, Len(chunks))
               /\ \A i \in 1..Len(picks), j \in 1..Len(picks) :
                      i # j => picks[i] # picks[j]
               /\ \A i \in 1..Len(picks), j \in 1..Len(chunks) :
                      j \notin Range(picks) =>
                          chunks[picks[i]].quality_score >= chunks[j].quality_score
               /\ response[1].answer =
                      <<"based_on_available_sources">>
                          \o Bullets([k \in 1..Len(picks) |-> chunks[picks[k]]])

---------------------------------------------------------------------------
(* Concurrent invocations: several threads call process_query on one        *)
(* Orchestrator, each with its own Query, and share its tools.  Every call  *)
(* has its own ThreadPoolExecutor, futures, AggregatedContext and           *)
(* WorkflowState; the tools, the ContextChunk objects they hand out and the *)
(* dict _workflow_states are reachable from all of them.  The clock is not  *)
(* advanced here: a deadline may pass at any moment.                        *)

NumInvocations == 2   \* concurrent process_query calls
NumSharedTools == 1   \* tools the concurrent calls share

Invocations == 1..NumInvocations
SharedTools == 1..NumSharedTools

\* query.id of the Query invocation i was called with.
QueryIdOf(i) == <<"q1", "q2", "q3", "q4">>[i]

ChunkRef_cached(i, t, k) == <<0, t, k>>

\* The identity of the k-th ContextChunk object made by the execute call of
\* tool t for invocation i: create_chunk constructs a new object on every
\* call, so objects of different calls are different objects.
ChunkRef(i, t, k) == <<i, t, k>>

\* What one execute call of tool t may come to: a successful result with the
\* reference of the chunk it made, or a failure result.
SharedToolOutcomes(i, t) ==
    {[status |-> "success", chunks |-> <<ChunkRef(i, t, 1)>>],
     [status |-> "error", chunks |-> <<>>]}

\* AggregatedContext(query_id=query.id)
AggregatedContextFor(query_id) ==
    [NewAggregatedContext EXCEPT !.query_id = query_id]

\* A thread is about to call process_query(Query(...)).
NewInvocation(i) ==
    [pc                 |-> "start",
     query              |-> [id |-> QueryIdOf(i), status |-> "submitted",
                             error_message |-> None],
     workflow_state     |-> None,
     future_to_tool     |-> [t \in SharedTools |-> [state |-> "unsubmitted", result |-> None]],
     doneQueue          |-> <<>>,
     aggregated         |-> AggregatedContextFor(QueryIdOf(i)),
     aggregated_context |-> None]

ConcurrentInit ==
    /\ invocation = [i \in Invocations |-> NewInvocation(i)]
    /\ _workflow_states = <<>>
    /\ chunk_objects = <<>>
    /\ last_error = [t \in Tools |-> None]
    /\ pc = "start"
    /\ now = 0
    /\ task = [t \in Tools |-> [state |-> "unsubmitted", result |-> None, doneAt |-> 0]]
    /\ doneQueue = <<>>
    /\ invocations = [t \in Tools |-> 0]
    /\ deadlineHit = FALSE
    /\ aggregated = NewAggregatedContext
    /\ aggregated_context = None
    /\ filtered_context = None
    /\ evaluatorOutcome = "not_called"
    /\ synthesizerOutcome = "not_called"
    /\ response = None
    /\ returned = None
    /\ unhandled = FALSE
    /\ query = NewQuery
    /\ workflow_state = NewWorkflowState
    /\ history = [messages |-> <<>>, add_message_raised_at |-> 0]
    /\ stepsStarted = <<>>
    /\ config = [evaluator |-> Some(Evaluator(quality_threshold, dedup_threshold)),
                 synthesizer |-> TRUE,
                 conversation_history |-> FALSE]

\* The variables that follow a single call stay as they are.
SingleCallUnchanged ==
    UNCHANGED <<pc, now, task, doneQueue, invocations, deadlineHit, aggregated,
                aggregated_context, filtered_context, evaluatorOutcome,
                synthesizerOutcome, response, returned, unhandled, query,
                workflow_state, history, stepsStarted, config>>

\* The WorkflowState object invocation i holds in its local workflow_state.
StateOf(i) == _workflow_states[invocation[i].workflow_state[1]]

\* A method of invocation i's WorkflowState has run and left it as ws.
Recorded(i, ws) ==
    [_workflow_states EXCEPT ![invocation[i].workflow_state[1]] = ws]

UnfinishedOf(i) ==
    {t \in SharedTools : invocation[i].future_to_tool[t].state \in {"queued", "running"}}

\* Lines 197-211 and 390-403 for invocation i: a WorkflowState is created
\* and stored under query.id, the retrieval step starts, a new executor is
\* made and one task per tool submitted to it.
ProcessQueryBegins(i) ==
    /\ invocation[i].pc = "start"
    /\ _workflow_states' =
           (QueryIdOf(i) :> record_step_start(NewWorkflowState, "RETRIEVAL", now))
               @@ _workflow_states
    /\ invocation' = [invocation EXCEPT
           ![i].pc = "as_completed",
           ![i].workflow_state = Some(QueryIdOf(i)),
           ![i].future_to_tool =
               [t \in SharedTools |-> [state |-> IF t <= max_workers THEN "running" ELSE "queued",
                                 result |-> None]]]
    /\ UNCHANGED <<chunk_objects, last_error>>
    /\ SingleCallUnchanged

\* The futures of invocation i once its retrieval is over: out of scope.
Released == [t \in SharedTools |-> [state |-> "released", result |-> None]]

\* tool.execute(query), called by a worker of invocation i's executor, ends:
\* it has made its chunk object and written the tool's last_error
\* (create_success_result, create_error_result).  The worker takes the next
\* queued task of its executor, if any.  After the TimeoutError nothing reads
\* the future any more: its result, and the chunk with it, is dropped.
ToolExecuteEnds(i, t) ==
    /\ invocation[i].pc \in {"as_completed", "shutdown"}
    /\ invocation[i].future_to_tool[t].state = "running"
    /\ \E r \in SharedToolOutcomes(i, t) :
         LET queued == {u \in SharedTools : invocation[i].future_to_tool[u].state = "queued"}
             next   == IF queued = {} THEN 0
                       ELSE CHOOSE u \in queued : \A v \in queued : u <= v
             read   == invocation[i].pc = "as_completed"
         IN  /\ invocation' = [invocation EXCEPT
                    ![i].future_to_tool =
                        [u \in SharedTools |->
                            IF u = t THEN [state |-> "finished",
                                           result |-> IF read THEN Some(r) ELSE None]
                            ELSE IF u = next THEN [@[u] EXCEPT !.state = "running"]
                            ELSE @[u]],
                    ![i].doneQueue = IF read THEN Append(@, t) ELSE @]
             /\ chunk_objects' =
                    IF read
                    THEN [ref \in DOMAIN chunk_objects \cup Range(r.chunks) |->
                             IF ref \in Range(r.chunks)
                             THEN create_chunk(t, ref[3])
                             ELSE chunk_objects[ref]]
                    ELSE chunk_objects
             /\ last_error' = [last_error EXCEPT
                    ![t] = IF r.status = "success" THEN None ELSE Some("tool failed")]
    /\ UNCHANGED _workflow_states
    /\ SingleCallUnchanged

\* The body of the as_completed loop (lines 407-447) of invocation i for the
\* future yielded next; late says whether its deadline has passed by then.
\* "chunk.query_id = query.id" writes to the chunk object itself.  A result
\* that is not taken is dropped, and its chunk with it.
FutureCollected(i) ==
    /\ invocation[i].pc = "as_completed"
    /\ invocation[i].doneQueue # <<>>
    /\ \E late \in BOOLEAN :
         LET t      == Head(invocation[i].doneQueue)
             result == invocation[i].future_to_tool[t].result[1]
             taken  == ~late /\ result.status = "success"
         IN  /\ invocation' = [invocation EXCEPT
                    ![i].doneQueue = Tail(@),
                    ![i].future_to_tool[t].result = None,
                    ![i].aggregated =
                        IF taken
                        THEN [@ EXCEPT !.chunks = @ \o result.chunks,
                                       !.sources_consulted = Append(@, t),
                                       !.total_chunks_before_dedup = @ + Len(result.chunks)]
                        ELSE [@ EXCEPT !.sources_failed = Append(@, t)]]
             /\ chunk_objects' =
                    IF taken
                    THEN [ref \in DOMAIN chunk_objects |->
                             IF ref \in Range(result.chunks)
                             THEN [chunk_objects[ref] EXCEPT
                                      !.query_id = invocation[i].query.id]
                             ELSE chunk_objects[ref]]
                    ELSE [ref \in DOMAIN chunk_objects \ Range(result.chunks) |->
                             chunk_objects[ref]]
    /\ UNCHANGED <<_workflow_states, last_error>>
    /\ SingleCallUnchanged

\* as_completed of invocation i raises TimeoutError with futures pending; the
\* executor's shutdown(wait=True) follows, and the AggregatedContext local to
\* _retrieve_context_with_retry is lost with what it held.
DeadlinePasses(i) ==
    /\ invocation[i].pc = "as_completed"
    /\ invocation[i].doneQueue = <<>>
    /\ UnfinishedOf(i) # {}
    /\ invocation' = [invocation EXCEPT
           ![i].pc = "shutdown",
           ![i].aggregated = AggregatedContextFor(invocation[i].query.id)]
    /\ chunk_objects' =
           [ref \in DOMAIN chunk_objects \ Range(invocation[i].aggregated.chunks) |->
               chunk_objects[ref]]
    /\ UNCHANGED <<_workflow_states, last_error>>
    /\ SingleCallUnchanged

\* Every task of invocation i has ended and the TimeoutError reaches
\* process_query (lines 218-227): the retrieval step is recorded as failed
\* and the step goes on with a new, empty AggregatedContext.
TimeoutReachesProcessQuery(i) ==
    /\ invocation[i].pc = "shutdown"
    /\ UnfinishedOf(i) = {}
    /\ _workflow_states' =
           Recorded(i, record_step_error(StateOf(i), "RETRIEVAL", "futures unfinished"))
    /\ invocation' = [invocation EXCEPT
           ![i].pc = "evaluation",
           ![i].future_to_tool = Released,
           ![i].aggregated_context = Some(AggregatedContextFor(invocation[i].query.id))]
    /\ UNCHANGED <<chunk_objects, last_error>>
    /\ SingleCallUnchanged

\* Every future of invocation i was yielded: _retrieve_context_with_retry
\* returns its AggregatedContext and the step is recorded as completed
\* (lines 215-216).
RetrievalEnds(i) ==
    /\ invocation[i].pc = "as_completed"
    /\ invocation[i].doneQueue = <<>>
    /\ UnfinishedOf(i) = {}
    /\ LET agg == [invocation[i].aggregated EXCEPT
                      !.total_chunks_after_dedup = Len(invocation[i].aggregated.chunks)]
       IN  /\ invocation' = [invocation EXCEPT
                  ![i].pc = "evaluation",
                  ![i].future_to_tool = Released,
                  ![i].aggregated = agg,
                  ![i].aggregated_context = Some(agg)]
           /\ _workflow_states' =
                  Recorded(i, record_step_complete(
                      [StateOf(i) EXCEPT !.aggregated_context = Some(agg)],
                      "RETRIEVAL", now))
    /\ UNCHANGED <<chunk_objects, last_error>>
    /\ SingleCallUnchanged

\* Steps 2 to 4 and the completion block of invocation i (lines 229-337),
\* with an evaluator and a synthesizer configured and no conversation
\* history: evaluation is recorded as completed, or as failed when the
\* evaluator raises; synthesis is recorded as completed; process_query
\* returns.  These steps read the chunks and write only to the invocation's
\* own locals, its Query and its WorkflowState.
LaterSteps(i) ==
    /\ invocation[i].pc = "evaluation"
    /\ \E raises \in BOOLEAN :
         LET evaluation == record_step_start(StateOf(i), "EVALUATION", now)
             evaluated  == IF raises
                           THEN record_step_error(evaluation, "EVALUATION", "evaluator raised")
                           ELSE record_step_complete(evaluation, "EVALUATION", now)
             synthesized == record_step_complete(
                               record_step_start(evaluated, "SYNTHESIS", now),
                               "SYNTHESIS", now)
         IN  _workflow_states' =
                 Recorded(i, record_step_complete(
                     record_step_start(synthesized, "MEMORY", now), "COMPLETE", now))
    /\ invocation' = [invocation EXCEPT
           ![i].pc = "returned",
           ![i].query = [@ EXCEPT !.status = "completed", !.error_message = None]]
    /\ UNCHANGED <<chunk_objects, last_error>>
    /\ SingleCallUnchanged

ConcurrentNext ==
    \E i \in Invocations :
        \/ ProcessQueryBegins(i)
        \/ \E t \in SharedTools : ToolExecuteEnds(i, t)
        \/ FutureCollected(i)
        \/ DeadlinePasses(i)
        \/ TimeoutReachesProcessQuery(i)
        \/ RetrievalEnds(i)
        \/ LaterSteps(i)

SpecConcurrent == ConcurrentInit /\ [][ConcurrentNext]_vars

\* The steps the WorkflowState of an invocation at position p may list as
\* completed or failed, given what that invocation alone has done.
OwnSteps(p) ==
    CASE p \in {"as_completed", "shutdown"} -> {}
      [] p = "evaluation" -> {"RETRIEVAL"}
      [] p = "returned"   -> {"RETRIEVAL", "EVALUATION", "SYNTHESIS", "COMPLETE"}
      [] OTHER            -> {}

\* The number of entries completed_steps and failed_steps hold together at
\* position p when only the invocation itself has recorded into them.
OwnStepCount(p) ==
    CASE p = "evaluation" -> 1
      [] p = "returned"   -> 4
      [] OTHER            -> 0

\* C29: when several process_query invocations run concurrently on one
\* Orchestrator and share its tools, each one changes only its own
\* WorkflowState and AggregatedContext.  Every fragment in the
\* AggregatedContext of query q is an object made by a tool call of q's own
\* invocation and carries query_id = q.id; the WorkflowState stored for q
\* exists once q's invocation has begun and lists the steps of that
\* invocation, each once, and nothing another invocation recorded.
C29_InvocationsIsolated ==
    \A i \in Invocations :
        LET inv == invocation[i]
            own == {inv.aggregated} \cup Range(inv.aggregated_context)
        IN  /\ \A agg \in own :
                  /\ agg.query_id = inv.query.id
                  /\ \A k \in 1..Len(agg.chunks) :
                        /\ agg.chunks[k][1] = i
                        /\ agg.chunks[k] \in DOMAIN chunk_objects
                        /\ chunk_objects[agg.chunks[k]].query_id = inv.query.id
            /\ (inv.pc = "start") <=> (inv.query.id \notin DOMAIN _workflow_states)
            /\ inv.pc # "start" =>
                  LET ws == _workflow_states[inv.query.id]
                  IN  /\ inv.workflow_state = Some(inv.query.id)
                      /\ Range(ws.completed_steps) \cup Range(ws.failed_steps)
                             = OwnSteps(inv.pc)
                      /\ Len(ws.completed_steps) + Len(ws.failed_steps)
                             = OwnStepCount(inv.pc)
                      /\ ws.aggregated_context \in {None, inv.aggregated_context}

\* Two invocations are in their as_completed loops at once, each having
\* taken a fragment the same tool returned to it.
C29_Witness ==
    \E i \in Invocations, j \in Invocations :
        /\ i # j
        /\ invocation[i].pc = "as_completed"
        /\ invocation[j].pc = "as_completed"
        /\ invocation[i].aggregated.chunks # <<>>
        /\ invocation[j].aggregated.chunks # <<>>
        /\ invocation[i].aggregated.sources_consulted
               = invocation[j].aggregated.sources_consulted

====
